---------------------------- MODULE Spec2Model ----------------------------
(***************************************************************************)
(* The PhoneQrScanner component (src/src/PhoneQrScanner.tsx): its React    *)
(* state, its refs, the capture devices and interval timers of the         *)
(* environment, the asynchronous completions in flight, and the phone      *)
(* number extractor.  Text is a sequence of one-character strings.         *)
(***************************************************************************)
EXTENDS Integers, Sequences, FiniteSets, TLC

(***************************************************************************)
(* Bounds of the model.                                                    *)
(***************************************************************************)
\* capture streams that can exist at once
MaxStreams == 1
\* interval timers that can exist at once
MaxTimers == 1
\* asynchronous completions that can be outstanding at once
MaxPending == 1

\* The limits a specification runs under: Narrow is the bounds above, Wide is one
\* more of each, for the runs in which two startScanning calls overlap.
Limits(extra) ==
  [streams |-> MaxStreams + extra, timers |-> MaxTimers + extra,
   pending |-> MaxPending + extra]

Narrow == Limits(0)

Wide == Limits(1)

(***************************************************************************)
(* Character classes of the regular expressions.                           *)
(***************************************************************************)
Digit == {"0", "1", "2", "3", "4", "5", "6", "7", "8", "9"}

\* \s
Space == {" ", "\t", "\n"}

\* [-.\s]
Sep == {"-", "."} \cup Space

\* [0-9\-\s\(\)]
TelBody == Digit \cup {"-", "(", ")"} \cup Space

\* one quantified character class: between lo and hi characters of cls, greedy
It(cls, lo, hi) == [cls |-> cls, lo |-> lo, hi |-> hi]

One(c) == It({c}, 1, 1)

\* stands for an unbounded quantifier: no text of the model is longer
Unbounded == 64

\* (\+\d{1,3}[-.\s]?)  the optional country-code group of patterns 1 to 4
CountryGroup == <<One("+"), It(Digit, 1, 3), It(Sep, 0, 1)>>

\* (G)?R tries G followed by R first, then R alone
Opt(group, rest) == <<group \o rest, rest>>

phonePatterns ==
  << Opt(CountryGroup, <<It({"("}, 0, 1), It(Digit, 3, 3), It({")"}, 0, 1), It(Sep, 0, 1),
                         It(Digit, 3, 3), It(Sep, 0, 1), It(Digit, 4, 4)>>),
     Opt(CountryGroup, <<It(Digit, 10, 15)>>),
     Opt(CountryGroup, <<It(Digit, 4, 4), It(Sep, 0, 1), It(Digit, 3, 3), It(Sep, 0, 1),
                         It(Digit, 3, 3)>>),
     Opt(CountryGroup, <<It(Digit, 3, 3), It(Sep, 0, 1), It(Digit, 4, 4), It(Sep, 0, 1),
                         It(Digit, 4, 4)>>),
     << <<It({"t", "T"}, 1, 1), It({"e", "E"}, 1, 1), It({"l", "L"}, 1, 1), One(":"),
          It({"+"}, 0, 1), It(TelBody, 1, Unbounded)>> >>,
     << <<It({"p", "P"}, 1, 1), It({"h", "H"}, 1, 1), It({"o", "O"}, 1, 1),
          It({"n", "N"}, 1, 1), It({"e", "E"}, 1, 1), One(":"),
          It({"+"}, 0, 1), It(TelBody, 1, Unbounded)>> >> >>

(***************************************************************************)
(* A backtracking matcher for these patterns.  Positions are 1-based; a    *)
(* match is reported by the position after its last character, 0 is "no    *)
(* match".                                                                 *)
(***************************************************************************)
RECURSIVE RunLen(_, _, _, _)
\* how many characters from pos on are in cls, at most hi
RunLen(cls, hi, text, pos) ==
  IF hi = 0 \/ pos > Len(text) \/ text[pos] \notin cls THEN 0
  ELSE 1 + RunLen(cls, hi - 1, text, pos + 1)

\* the first of two attempts that matched
OrElse(r, other) == IF r # 0 THEN r ELSE other

RECURSIVE MatchFrom(_, _, _, _)
RECURSIVE TryCount(_, _, _, _, _)
\* items k.. of one alternative matched at pos, greedy, longest count first
MatchFrom(items, k, text, pos) ==
  IF k > Len(items) THEN pos
  ELSE TryCount(items, k, text, pos, RunLen(items[k].cls, items[k].hi, text, pos))

TryCount(items, k, text, pos, c) ==
  IF c < items[k].lo THEN 0
  ELSE OrElse(MatchFrom(items, k + 1, text, pos + c), TryCount(items, k, text, pos, c - 1))

RECURSIVE MatchAlt(_, _, _, _)
\* the first alternative of pat, from the a-th on, that matches at pos
MatchAlt(pat, a, text, pos) ==
  IF a > Len(pat) THEN 0
  ELSE OrElse(MatchFrom(pat[a], 1, text, pos), MatchAlt(pat, a + 1, text, pos))

RECURSIVE MatchAll(_, _, _)
RECURSIVE MatchNext(_, _, _, _)
\* text.match(pattern) with the g flag: the successive non-overlapping matches
MatchAll(pat, text, pos) ==
  IF pos > Len(text) THEN <<>> ELSE MatchNext(pat, text, pos, MatchAlt(pat, 1, text, pos))

\* e is where the match at pos ends, 0 when there is none at pos
MatchNext(pat, text, pos, e) ==
  IF e = 0 THEN MatchAll(pat, text, pos + 1)
  ELSE <<SubSeq(text, pos, e - 1)>> \o MatchAll(pat, text, e)

(***************************************************************************)
(* String helpers of the extractor.                                        *)
(***************************************************************************)
\* s.replace(/[^\d]/g, '')
DigitsOf(s) == SelectSeq(s, LAMBDA c : c \in Digit)

Lower(c) ==
  CASE c = "T" -> "t" [] c = "E" -> "e" [] c = "L" -> "l" [] c = "P" -> "p"
    [] c = "H" -> "h" [] c = "O" -> "o" [] c = "N" -> "n" [] OTHER -> c

StartsWithCI(s, p) ==
  /\ Len(s) >= Len(p)
  /\ \A i \in 1..Len(p) : Lower(s[i]) = p[i]

\* s.replace(/^(tel:|phone:)/i, '')
StripPrefix(s) ==
  IF StartsWithCI(s, <<"t", "e", "l", ":">>) THEN SubSeq(s, 5, Len(s))
  ELSE IF StartsWithCI(s, <<"p", "h", "o", "n", "e", ":">>) THEN SubSeq(s, 7, Len(s))
  ELSE s

RECURSIVE TrimLeft(_)
TrimLeft(s) == IF s # <<>> /\ s[1] \in Space THEN TrimLeft(Tail(s)) ELSE s

RECURSIVE TrimRight(_)
TrimRight(s) ==
  IF s # <<>> /\ s[Len(s)] \in Space THEN TrimRight(SubSeq(s, 1, Len(s) - 1)) ELSE s

\* s.trim()
Trim(s) == TrimRight(TrimLeft(s))

\* the value extractPhoneNumber returns for "no number"; like '' it is falsy
null == <<>>

\* s.startsWith('+')
HasPlus(s) == s # <<>> /\ s[1] = "+"

\* Clean losing the leading +
CleanDropsPlus(phone) == DigitsOf(phone)

\* lines 108-113: all but the digits removed, a leading + kept
Clean(phone) ==
  IF HasPlus(phone) THEN <<"+">> \o DigitsOf(Tail(phone)) ELSE DigitsOf(phone)

\* line 116: phone.replace(/^\+/, '').length
DigitCount(phone) == IF HasPlus(phone) THEN Len(phone) - 1 ELSE Len(phone)

\* Validate without the lower limit of 10 digits
ValidateNoMinimum(phone, hasPlus, digitCount) ==
  IF digitCount <= 15
  THEN IF hasPlus THEN phone
       ELSE IF digitCount >= 11 THEN <<"+">> \o phone
       ELSE phone
  ELSE null

\* Validate never adding a +
ValidateNeverAddsPlus(phone, hasPlus, digitCount) ==
  IF digitCount >= 10 /\ digitCount <= 15 THEN phone ELSE null

\* lines 117-127: the length check and the shape of the result
Validate(phone, hasPlus, digitCount) ==
  IF digitCount >= 10 /\ digitCount <= 15
  THEN IF hasPlus THEN phone
       ELSE IF digitCount >= 11 THEN <<"+">> \o phone
       ELSE phone
  ELSE null

\* lines 106-127, phone being the match without its prefix, trimmed
NormalizeStripped(phone) == Validate(Clean(phone), HasPlus(phone), DigitCount(Clean(phone)))

\* lines 103-127: one match cleaned and validated; null when it is rejected
NormalizeMatch(match) == NormalizeStripped(Trim(StripPrefix(match)))

\* the first of two results that is a number
OrNext(r, other) == IF r # null THEN r ELSE other

RECURSIVE FirstValid(_, _)
\* the inner loop: the first match of one pattern that validates
FirstValid(matches, i) ==
  IF i > Len(matches) THEN null
  ELSE OrNext(NormalizeMatch(matches[i]), FirstValid(matches, i + 1))

\* lines 134-139
FallbackOf(digitSequence) ==
  IF Len(digitSequence) >= 10 /\ Len(digitSequence) <= 15
  THEN IF Len(digitSequence) >= 11 THEN <<"+">> \o digitSequence ELSE digitSequence
  ELSE null

\* lines 133-139: all digits of the whole text
Fallback(text) == FallbackOf(DigitsOf(text))

RECURSIVE ExtractFrom(_, _)
\* the outer loop over phonePatterns from the p-th on, then the fallback
ExtractFrom(text, p) ==
  IF p > Len(phonePatterns) THEN Fallback(text)
  ELSE OrNext(FirstValid(MatchAll(phonePatterns[p], text, 1), 1), ExtractFrom(text, p + 1))

\* lines 87-140
extractPhoneNumberOf(text) == ExtractFrom(text, 1)


(***************************************************************************)
(* Inputs of the model.                                                    *)
(***************************************************************************)
\* "tel:+12025550172": a payload the tel: pattern and the fallback validate
PayloadTel == <<"t", "e", "l", ":", "+", "1", "2", "0", "2", "5", "5", "5", "0", "1", "7", "2">>

\* "5551234567": a bare local number
PayloadLocal == <<"5", "5", "5", "1", "2", "3", "4", "5", "6", "7">>

\* "hello 42": a payload without a phone number
PayloadText == <<"h", "e", "l", "l", "o", " ", "4", "2">>

\* what a QR code in front of the camera or in an image can hold
Payloads == {PayloadTel, PayloadText}

\* what the user can type into the manual input
ManualInputs == {PayloadLocal, PayloadText}

\* extractPhoneNumberOf on the texts above, computed once
ExtractTable == [text \in Payloads \cup ManualInputs |-> extractPhoneNumberOf(text)]

\* extractPhoneNumber as the handlers call it
extractPhoneNumber(text) ==
  IF text \in DOMAIN ExtractTable THEN ExtractTable[text] ELSE extractPhoneNumberOf(text)

\* what the user can type into the message box: "", " " and "hi"
Messages == {<<>>, <<" ">>, <<"h", "i">>}

\* the rejections of getUserMedia the code tells apart by err.name
GumErrors == {"NotAllowedError", "NotFoundError", "OtherError"}

PermissionStates == {"unknown", "granted", "denied", "prompt"}

\* the states navigator.permissions reports
ProviderStates == {"granted", "denied", "prompt"}

StreamIds == 1..Wide.streams

TimerIds == 1..Wide.timers

(***************************************************************************)
(* The state.                                                              *)
(***************************************************************************)
VARIABLES
  \* useState, lines 6-15
  phoneNumber, scanned, error, isScanning, permissionState, isProcessingFile,
  lastScannedContent, smsMessage, isSendingSms, smsAttempted,
  \* useRef, lines 17-22: 0 is null; videoRef is TRUE when it holds the <video>
  scanIntervalRef, streamRef, videoRef,
  \* the stream attached to the <video> element (video.srcObject), 0 for none
  srcObject,
  \* whether the component is mounted
  mounted,
  \* the environment: streams whose tracks are live; timers[t] is 0 when timer t is
  \* not scheduled, else the stream acquired by the startScanning call that set it
  openStreams, timers,
  \* the permission probe of checkCameraPermission: "pending" while the query is
  \* outstanding, "watching" once the change handler is installed, else "off"
  probe,
  \* suspended async functions and callbacks: counts of requestCameraPermission
  \* calls awaiting getUserMedia, of startScanning calls awaiting getUserMedia, of
  \* images loading, each split into fresh and stale (see Cancel); the startScanning
  \* calls awaiting video.play(), each with its local variable stream; the
  \* setTimeout callbacks of sendSms, each with the value of error its closure holds
  pendPerm, pendAcquire, pendImg, pendPlay, pendTimeout,
  \* history: a track.stop() hit a stream that was already stopped
  doubleStop,
  \* history: the last step taken
  ev

vars == <<phoneNumber, scanned, error, isScanning, permissionState, isProcessingFile,
          lastScannedContent, smsMessage, isSendingSms, smsAttempted,
          scanIntervalRef, streamRef, videoRef, srcObject, mounted, openStreams, timers,
          probe, pendPerm, pendAcquire, pendImg, pendPlay, pendTimeout,
          doubleStop, ev>>

\* the current state as one record, so that handlers compose as functions
Cur ==
  [phoneNumber |-> phoneNumber, scanned |-> scanned, error |-> error,
   isScanning |-> isScanning, permissionState |-> permissionState,
   isProcessingFile |-> isProcessingFile, lastScannedContent |-> lastScannedContent,
   smsMessage |-> smsMessage, isSendingSms |-> isSendingSms, smsAttempted |-> smsAttempted,
   scanIntervalRef |-> scanIntervalRef, streamRef |-> streamRef, videoRef |-> videoRef,
   srcObject |-> srcObject, mounted |-> mounted, openStreams |-> openStreams,
   timers |-> timers, probe |-> probe,
   pendPerm |-> pendPerm, pendAcquire |-> pendAcquire, pendImg |-> pendImg,
   pendPlay |-> pendPlay, pendTimeout |-> pendTimeout, doubleStop |-> doubleStop,
   ev |-> ev]

NoTasks == [fresh |-> 0, stale |-> 0]

Ev(op, res, timer, stream, stale) ==
  [op |-> op, res |-> res, timer |-> timer, stream |-> stream, stale |-> stale]

(***************************************************************************)
(* Rendering (lines 670-776).  The <video> is rendered inside the          *)
(* !scanned block when isScanning; React sets videoRef.current to the      *)
(* element when it mounts and to null when it unmounts, and a newly        *)
(* mounted element has no srcObject.                                       *)
(***************************************************************************)
VideoRendered(s) == s.mounted /\ s.isScanning /\ ~s.scanned

Render(s) ==
  LET shown == VideoRendered(s)
  IN  [s EXCEPT !.videoRef = shown,
                !.srcObject = IF shown /\ s.videoRef THEN s.srcObject ELSE 0]

\* the asynchronous completions outstanding
Outstanding(s) ==
  s.pendPerm.fresh + s.pendPerm.stale + s.pendAcquire.fresh + s.pendAcquire.stale
  + s.pendImg.fresh + s.pendImg.stale + Cardinality(s.pendPlay) + Cardinality(s.pendTimeout)

LiveTimers(s) == {t \in TimerIds : s.timers[t] # 0}

\* stream ids something still refers to
UsedStreams(s) ==
  s.openStreams \cup {s.streamRef, s.srcObject} \cup {p.stream : p \in s.pendPlay}
  \cup {s.timers[t] : t \in TimerIds}

FreeStreams(s, lim) == (1..lim.streams) \ UsedStreams(s)

\* the id getUserMedia gives the next stream
NewStream(s, lim) == CHOOSE i \in FreeStreams(s, lim) : \A j \in FreeStreams(s, lim) : i <= j

FreeTimers(s, lim) == (1..lim.timers) \ (LiveTimers(s) \cup {s.scanIntervalRef})

\* the id setInterval gives the next timer
NewTimer(s, lim) == CHOOSE i \in FreeTimers(s, lim) : \A j \in FreeTimers(s, lim) : i <= j

Add(tasks, stale) ==
  IF stale THEN [tasks EXCEPT !.stale = @ + 1] ELSE [tasks EXCEPT !.fresh = @ + 1]

Take(tasks, stale) ==
  IF stale THEN [tasks EXCEPT !.stale = @ - 1] ELSE [tasks EXCEPT !.fresh = @ - 1]

Has(tasks, stale) == IF stale THEN tasks.stale > 0 ELSE tasks.fresh > 0

AllStale(tasks) == [fresh |-> 0, stale |-> tasks.fresh + tasks.stale]

\* history only: stopScanning()/reset() was invoked, so the calls suspended now are
\* stale: whatever they do when they resume arrives after the cancellation; reset
\* and teardown also make the image decode stale
Cancel(s, images) ==
  [s EXCEPT !.pendPerm = AllStale(@), !.pendAcquire = AllStale(@),
            !.pendPlay = {[p EXCEPT !.stale = TRUE] : p \in @},
            !.pendImg = IF images THEN AllStale(@) ELSE @]

(***************************************************************************)
(* The handlers, as functions from state to state.                         *)
(***************************************************************************)
\* stopStream without line 82: the tracks are stopped, the reference is kept
stopStreamKeepsRef(s) ==
  IF s.streamRef # 0
  THEN [s EXCEPT !.openStreams = @ \ {s.streamRef},
                 !.doubleStop = @ \/ s.streamRef \notin s.openStreams]
  ELSE s

\* lines 79-84
stopStream(s) ==
  IF s.streamRef # 0
  THEN [s EXCEPT !.openStreams = @ \ {s.streamRef},
                 !.doubleStop = @ \/ s.streamRef \notin s.openStreams,
                 !.streamRef = 0]
  ELSE s

\* lines 208-220
stopScanning(s) ==
  LET s1 == IF s.scanIntervalRef # 0
            THEN [s EXCEPT !.timers[s.scanIntervalRef] = 0, !.scanIntervalRef = 0]
            ELSE s
      s2 == stopStream(s1)
      s3 == IF s2.videoRef THEN [s2 EXCEPT !.srcObject = 0] ELSE s2
  IN  [s3 EXCEPT !.isScanning = FALSE]

\* lines 180-191: startScanning up to its await of getUserMedia
startScanningCall(s) ==
  [s EXCEPT !.error = "", !.isScanning = TRUE, !.pendAcquire = Add(@, FALSE)]

\* lines 46-55: requestCameraPermission up to its await of getUserMedia
requestCameraPermissionCall(s) ==
  [s EXCEPT !.error = "", !.pendPerm = Add(@, FALSE)]

\* lines 693-706: the camera button
onClickCamera(s) ==
  IF s.permissionState = "granted" THEN startScanningCall(s)
  ELSE requestCameraPermissionCall(s)

\* requestCameraPermission without line 61: the stream stays open in streamRef
requestCameraPermissionKeepsStream(s, id) ==
  [s EXCEPT !.openStreams = @ \cup {id}, !.streamRef = id, !.permissionState = "granted"]

\* lines 57-64: getUserMedia resolved with stream id
requestCameraPermissionGranted(s, id) ==
  LET s1 == [s EXCEPT !.openStreams = @ \cup {id}, !.streamRef = id]
      s2 == stopStream(s1)
  IN  [s2 EXCEPT !.permissionState = "granted"]

\* requestCameraPermission with line 68 moved out of the if: every refusal denies
requestCameraPermissionAlwaysDenies(s, name) ==
  [s EXCEPT !.error = IF name = "NotAllowedError" THEN "CameraAccessDenied"
                      ELSE IF name = "NotFoundError" THEN "NoCameraFound"
                      ELSE "CameraAccessFailed",
            !.permissionState = "denied"]

\* lines 65-75: getUserMedia rejected with err.name = name
requestCameraPermissionRefused(s, name) ==
  IF name = "NotAllowedError"
  THEN [s EXCEPT !.error = "CameraAccessDenied", !.permissionState = "denied"]
  ELSE IF name = "NotFoundError" THEN [s EXCEPT !.error = "NoCameraFound"]
  ELSE [s EXCEPT !.error = "CameraAccessFailed"]

\* the button's handler without line 701: startScanning whatever the request gave
onClickResumeAlwaysStarts(s, granted) == startScanningCall(s)

\* lines 698-703: the button's handler resumes: startScanning if granted
onClickResume(s, granted) == IF granted THEN startScanningCall(s) ELSE s

\* lines 193-198: getUserMedia of startScanning resolved with stream id
startScanningAcquired(s, id, stale) ==
  LET s1 == [s EXCEPT !.openStreams = @ \cup {id}, !.streamRef = id]
  IN  IF s1.videoRef
      THEN [s1 EXCEPT !.srcObject = id,
                      !.pendPlay = @ \cup {[stream |-> id, stale |-> stale]}]
      ELSE s1

\* the catch of startScanning without line 204
startScanningFailedKeepsFlag(s) == [s EXCEPT !.error = "StartCameraFailed"]

\* lines 202-205: the catch of startScanning
startScanningFailed(s) ==
  [s EXCEPT !.error = "StartCameraFailed", !.isScanning = FALSE]

\* lines 199-200: video.play() resolved, setInterval returns timer t
startScanningPlaying(s, stream, t) ==
  [s EXCEPT !.scanIntervalRef = t, !.timers[t] = stream]

\* scanVideoFrame without line 170: a found number does not stop the scan
scanVideoFrameKeepsPolling(s, frame, code) ==
  IF ~s.videoRef \/ ~s.mounted \/ s.srcObject = 0 \/ frame = "none" THEN s
  ELSE IF code # null
       THEN IF extractPhoneNumber(code) # null
            THEN [s EXCEPT !.lastScannedContent = code,
                           !.phoneNumber = extractPhoneNumber(code), !.scanned = TRUE]
            ELSE [s EXCEPT !.lastScannedContent = code, !.error = "ScanNoPhoneNumber"]
       ELSE s

\* scanVideoFrame with stopScanning() moved after the if: any decoded code stops
\* the scan
scanVideoFrameStopsOnAnyCode(s, frame, code) ==
  IF ~s.videoRef \/ ~s.mounted \/ s.srcObject = 0 \/ frame = "none" THEN s
  ELSE IF code # null
       THEN IF extractPhoneNumber(code) # null
            THEN stopScanning([s EXCEPT !.lastScannedContent = code,
                                        !.phoneNumber = extractPhoneNumber(code),
                                        !.scanned = TRUE])
            ELSE stopScanning([s EXCEPT !.lastScannedContent = code,
                                        !.error = "ScanNoPhoneNumber"])
       ELSE s

\* lines 143-177: one poll tick; frame is "none" when no frame can be read
\* (readyState), else code is the decoded text, null when jsQR finds none
scanVideoFrame(s, frame, code) ==
  IF ~s.videoRef \/ ~s.mounted \/ s.srcObject = 0 \/ frame = "none" THEN s
  ELSE IF code # null
       THEN LET s1 == [s EXCEPT !.lastScannedContent = code]
                phoneMatch == extractPhoneNumber(code)
            IN  IF phoneMatch # null
                THEN stopScanning([s1 EXCEPT !.phoneNumber = phoneMatch,
                                             !.scanned = TRUE])
                ELSE [s1 EXCEPT !.error = "ScanNoPhoneNumber"]
       ELSE s

\* what a tick did, for the history
TickResult(s, frame, code) ==
  IF ~s.videoRef \/ ~s.mounted \/ s.srcObject = 0 \/ frame = "none" THEN "skip"
  ELSE IF code = null THEN "nocode"
  ELSE IF extractPhoneNumber(code) # null THEN "found"
  ELSE "ambiguous"

\* lines 223-240, 277-283: processFileUpload up to img.src; ctx is FALSE when the
\* canvas gives no 2d context
processFileUpload(s, ctx) ==
  LET s1 == [s EXCEPT !.isProcessingFile = TRUE, !.error = ""]
  IN  IF ~s1.mounted \/ ~ctx
      THEN [s1 EXCEPT !.error = "ProcessFileFailed", !.isProcessingFile = FALSE]
      ELSE [s1 EXCEPT !.pendImg = Add(@, FALSE)]

\* handleFileSelect without the check of file.type
handleFileSelectProcessesAny(s, kind, ctx) ==
  IF kind = "none" THEN s ELSE processFileUpload(s, ctx)

\* lines 286-295; kind is "none" (no file chosen), "image" or "other"
handleFileSelect(s, kind, ctx) ==
  IF kind = "none" THEN s
  ELSE IF kind = "image" THEN processFileUpload(s, ctx)
  ELSE [s EXCEPT !.error = "InvalidFileType"]

\* lines 242-269: img.onload
imgOnload(s, code) ==
  LET s1 == IF code # null
            THEN LET phoneMatch == extractPhoneNumber(code)
                 IN  IF phoneMatch # null
                     THEN [s EXCEPT !.lastScannedContent = code,
                                    !.phoneNumber = phoneMatch, !.scanned = TRUE]
                     ELSE [s EXCEPT !.lastScannedContent = code,
                                    !.error = "FileNoPhoneNumber"]
            ELSE [s EXCEPT !.error = "FileNoQrCode"]
  IN  [s1 EXCEPT !.isProcessingFile = FALSE]

\* lines 271-275: img.onerror
imgOnerror(s) == [s EXCEPT !.error = "FileLoadFailed", !.isProcessingFile = FALSE]

\* lines 298-307
handleManualInput(s, input) ==
  LET phoneMatch == extractPhoneNumber(input)
  IN  IF phoneMatch # null
      THEN [s EXCEPT !.phoneNumber = phoneMatch, !.scanned = TRUE, !.error = ""]
      ELSE [s EXCEPT !.error = "InvalidManualInput"]

\* message.trim() is empty
Blank(message) == Trim(message) = <<>>

\* sendSms without the check of the message (lines 322-325)
sendSmsSkipsMessageCheck(s, mobile, link) ==
  LET s0 == [s EXCEPT !.isSendingSms = TRUE, !.error = "", !.smsAttempted = FALSE]
      s1 == IF s.phoneNumber = <<>> \/ Len(s.phoneNumber) < 10
            THEN [s0 EXCEPT !.error = "SmsInvalidPhoneNumber"]
            ELSE LET s2 == IF ~mobile THEN [s0 EXCEPT !.error = "SmsDesktopAdvisory"]
                           ELSE s0
                 IN  IF link
                     THEN [s2 EXCEPT !.smsAttempted = TRUE,
                                     !.pendTimeout = @ \cup {s.error}]
                     ELSE [s2 EXCEPT !.error = "SmsOpenFailed"]
  IN  [s1 EXCEPT !.isSendingSms = FALSE]

\* sendSms giving up where it is not on a mobile device
sendSmsBlocksDesktop(s, mobile, link) ==
  LET s0 == [s EXCEPT !.isSendingSms = TRUE, !.error = "", !.smsAttempted = FALSE]
      s1 == IF s.phoneNumber = <<>> \/ Len(s.phoneNumber) < 10
            THEN [s0 EXCEPT !.error = "SmsInvalidPhoneNumber"]
            ELSE IF Blank(s.smsMessage)
            THEN [s0 EXCEPT !.error = "SmsEmptyMessage"]
            ELSE IF ~mobile
            THEN [s0 EXCEPT !.error = "SmsDesktopAdvisory"]
            ELSE IF link
            THEN [s0 EXCEPT !.smsAttempted = TRUE, !.pendTimeout = @ \cup {s.error}]
            ELSE [s0 EXCEPT !.error = "SmsOpenFailed"]
  IN  [s1 EXCEPT !.isSendingSms = FALSE]

\* lines 310-359; mobile is isMobileDevice(), link is FALSE when assigning
\* window.location.href throws
sendSms(s, mobile, link) ==
  LET s0 == [s EXCEPT !.isSendingSms = TRUE, !.error = "", !.smsAttempted = FALSE]
      s1 == IF s.phoneNumber = <<>> \/ Len(s.phoneNumber) < 10
            THEN [s0 EXCEPT !.error = "SmsInvalidPhoneNumber"]
            ELSE IF Blank(s.smsMessage)
            THEN [s0 EXCEPT !.error = "SmsEmptyMessage"]
            ELSE LET s2 == IF ~mobile THEN [s0 EXCEPT !.error = "SmsDesktopAdvisory"]
                           ELSE s0
                 IN  IF link
                     THEN [s2 EXCEPT !.smsAttempted = TRUE,
                                     !.pendTimeout = @ \cup {s.error}]
                     ELSE [s2 EXCEPT !.error = "SmsOpenFailed"]
  IN  [s1 EXCEPT !.isSendingSms = FALSE]

\* lines 343-347: the setTimeout callback; closureError is error as sendSms saw it
smsTimeout(s, closureError) ==
  IF closureError = "" THEN [s EXCEPT !.error = ""] ELSE s

\* lines 361-375
resetScanner(s) ==
  stopScanning([s EXCEPT !.phoneNumber = <<>>, !.scanned = FALSE, !.error = "",
                         !.lastScannedContent = <<>>, !.smsMessage = <<>>,
                         !.smsAttempted = FALSE])

\* lines 379-381: the effect's cleanup, run when the component unmounts
teardown(s) == [stopScanning(s) EXCEPT !.mounted = FALSE]

\* lines 33-38: the permission query resolved with state p, and the change
\* handler is installed
permissionProbed(s, p) == [s EXCEPT !.permissionState = p, !.probe = "watching"]

\* lines 36-38: permission.onchange, the browser's permission is now p
permissionChanged(s, p) == [s EXCEPT !.permissionState = p]

(***************************************************************************)
(* The actions.  Each is one handler or callback run to completion,        *)
(* followed by React's render.                                             *)
(***************************************************************************)
Assign(s, e) ==
      /\ phoneNumber' = s.phoneNumber
      /\ scanned' = s.scanned
      /\ error' = s.error
      /\ isScanning' = s.isScanning
      /\ permissionState' = s.permissionState
      /\ isProcessingFile' = s.isProcessingFile
      /\ lastScannedContent' = s.lastScannedContent
      /\ smsMessage' = s.smsMessage
      /\ isSendingSms' = s.isSendingSms
      /\ smsAttempted' = s.smsAttempted
      /\ scanIntervalRef' = s.scanIntervalRef
      /\ streamRef' = s.streamRef
      /\ videoRef' = s.videoRef
      /\ srcObject' = s.srcObject
      /\ mounted' = s.mounted
      /\ openStreams' = s.openStreams
      /\ timers' = s.timers
      /\ probe' = s.probe
      /\ pendPerm' = s.pendPerm
      /\ pendAcquire' = s.pendAcquire
      /\ pendImg' = s.pendImg
      /\ pendPlay' = s.pendPlay
      /\ pendTimeout' = s.pendTimeout
      /\ doubleStop' = s.doubleStop
      /\ ev' = e

\* the state a handler leaves is rendered and becomes the next state
Commit(s, e) == Assign(Render(s), e)

Init ==
  \E pr \in {"pending", "off"} :
    /\ phoneNumber = <<>> /\ scanned = FALSE /\ error = "" /\ isScanning = FALSE
    /\ permissionState = "unknown" /\ isProcessingFile = FALSE
    /\ lastScannedContent = <<>> /\ smsMessage = <<>> /\ isSendingSms = FALSE
    /\ smsAttempted = FALSE /\ scanIntervalRef = 0 /\ streamRef = 0
    /\ videoRef = FALSE /\ srcObject = 0 /\ mounted = TRUE /\ openStreams = {}
    /\ timers = [t \in TimerIds |-> 0] /\ probe = pr
    /\ pendPerm = NoTasks /\ pendAcquire = NoTasks /\ pendImg = NoTasks
    /\ pendPlay = {} /\ pendTimeout = {} /\ doubleStop = FALSE
    /\ ev = Ev("init", "", 0, 0, FALSE)

\* the camera button: rendered unless denied, disabled while isScanning
ClickCamera(lim) ==
  /\ mounted /\ ~scanned /\ permissionState # "denied" /\ ~isScanning
  /\ Outstanding(Cur) < lim.pending
  /\ Commit(onClickCamera(Cur), Ev("startCamera", permissionState, 0, 0, FALSE))

\* the Stop Camera button, rendered with the <video>
ClickStop ==
  /\ mounted /\ ~scanned /\ isScanning
  /\ Commit(Cancel(stopScanning(Cur), FALSE), Ev("stopCamera", "", 0, streamRef, FALSE))

\* getUserMedia of requestCameraPermission resolves; the button's handler resumes
\* in the same turn and calls startScanning
PermissionGranted(lim) ==
  \E stale \in BOOLEAN :
    /\ Has(pendPerm, stale) /\ FreeStreams(Cur, lim) # {}
    /\ Commit(onClickResume(
                requestCameraPermissionGranted([Cur EXCEPT !.pendPerm = Take(@, stale)],
                                               NewStream(Cur, lim)), TRUE),
              Ev("requestPermission", "granted", 0, NewStream(Cur, lim), stale))

\* getUserMedia of requestCameraPermission rejects
PermissionRefused ==
  \E stale \in BOOLEAN, name \in GumErrors :
    /\ Has(pendPerm, stale)
    /\ Commit(onClickResume(
                requestCameraPermissionRefused([Cur EXCEPT !.pendPerm = Take(@, stale)],
                                               name), FALSE),
              Ev("requestPermission", name, 0, 0, stale))

\* getUserMedia of startScanning resolves
Acquired(lim) ==
  \E stale \in BOOLEAN :
    /\ Has(pendAcquire, stale) /\ FreeStreams(Cur, lim) # {}
    /\ Commit(startScanningAcquired([Cur EXCEPT !.pendAcquire = Take(@, stale)],
                                    NewStream(Cur, lim), stale),
              Ev("acquire", "ok", 0, NewStream(Cur, lim), stale))

\* getUserMedia of startScanning rejects
AcquireFailed ==
  \E stale \in BOOLEAN :
    /\ Has(pendAcquire, stale)
    /\ Commit(startScanningFailed([Cur EXCEPT !.pendAcquire = Take(@, stale)]),
              Ev("acquire", "failed", 0, 0, stale))

\* video.play() resolves and the poll timer is set
Playing(lim) ==
  \E p \in pendPlay :
    /\ FreeTimers(Cur, lim) # {}
    /\ Commit(startScanningPlaying([Cur EXCEPT !.pendPlay = @ \ {p}], p.stream,
                                   NewTimer(Cur, lim)),
              Ev("play", "ok", NewTimer(Cur, lim), p.stream, p.stale))

\* video.play() rejects
PlayFailed ==
  \E p \in pendPlay :
    Commit(startScanningFailed([Cur EXCEPT !.pendPlay = @ \ {p}]),
           Ev("play", "failed", 0, p.stream, p.stale))

\* a scheduled interval timer fires; a tick that reads no frame or finds no code
\* changes nothing and leaves the history as it is
Tick ==
  \E t \in LiveTimers(Cur), frame \in {"none", "ready"}, code \in Payloads \cup {null} :
    /\ frame = "none" => code = null
    /\ Commit(scanVideoFrame(Cur, frame, code),
              IF TickResult(Cur, frame, code) \in {"skip", "nocode"} THEN ev
              ELSE Ev("tick", TickResult(Cur, frame, code), t, timers[t], FALSE))

\* the file input changes; the upload button is disabled while a file is processed
SelectFile(lim) ==
  \E kind \in {"none", "image", "other"}, ctx \in BOOLEAN :
    /\ mounted /\ ~scanned /\ ~isProcessingFile
    /\ Outstanding(Cur) < lim.pending
    /\ kind # "image" => ctx
    /\ Commit(handleFileSelect(Cur, kind, ctx),
              IF kind = "none" THEN ev
              ELSE Ev("uploadImage", IF kind = "image" /\ ~ctx THEN "noctx" ELSE kind,
                      0, 0, FALSE))

\* the image loads and is decoded
ImageLoaded ==
  \E stale \in BOOLEAN, code \in Payloads \cup {null} :
    /\ Has(pendImg, stale)
    /\ Commit(imgOnload([Cur EXCEPT !.pendImg = Take(@, stale)], code),
              Ev("imageLoaded",
                 IF code = null THEN "nocode"
                 ELSE IF extractPhoneNumber(code) # null THEN "found" ELSE "ambiguous",
                 0, 0, stale))

\* the image fails to load
ImageFailed ==
  \E stale \in BOOLEAN :
    /\ Has(pendImg, stale)
    /\ Commit(imgOnerror([Cur EXCEPT !.pendImg = Take(@, stale)]),
              Ev("imageFailed", "", 0, 0, stale))

\* the manual input's Add button or Enter key
ManualInput ==
  \E input \in ManualInputs :
    /\ mounted /\ ~scanned
    /\ Commit(handleManualInput(Cur, input),
              Ev("enterManualNumber",
                 IF extractPhoneNumber(input) # null THEN "found" ELSE "invalid",
                 0, 0, FALSE))

\* typing into the message box of the result view (setSmsMessage)
TypeMessage ==
  \E m \in Messages :
    /\ mounted /\ scanned /\ phoneNumber # <<>> /\ m # smsMessage
    /\ Commit([Cur EXCEPT !.smsMessage = m], Ev("typeMessage", "", 0, 0, FALSE))

\* the SMS form is submitted; the browser submits no form whose textarea, which
\* is required (line 845), is empty
SendSms(lim) ==
  \E mobile \in BOOLEAN, link \in BOOLEAN :
    /\ mounted /\ scanned /\ phoneNumber # <<>> /\ ~isSendingSms
    /\ smsMessage # <<>>
    /\ Outstanding(Cur) < lim.pending
    /\ Commit(sendSms(Cur, mobile, link),
              Ev("composeAndHandOff",
                 IF mobile THEN (IF link THEN "mobile" ELSE "mobileThrow")
                 ELSE (IF link THEN "desktop" ELSE "desktopThrow"), 0, 0, FALSE))

\* the one-second timeout of sendSms fires
SmsTimeout ==
  \E e \in pendTimeout :
    Commit(smsTimeout([Cur EXCEPT !.pendTimeout = @ \ {e}], e),
           Ev("smsTimeout", "", 0, 0, FALSE))

\* the Scan Another button of the result view
Reset ==
  /\ mounted /\ scanned /\ phoneNumber # <<>>
  /\ Commit(Cancel(resetScanner(Cur), TRUE), Ev("reset", "", 0, streamRef, FALSE))

\* the component unmounts
Teardown ==
  /\ mounted
  /\ Commit(Cancel(teardown(Cur), TRUE), Ev("teardown", "", 0, streamRef, FALSE))

\* navigator.permissions.query resolves
Probed ==
  \E p \in ProviderStates :
    /\ probe = "pending"
    /\ Commit(permissionProbed(Cur, p), Ev("probe", p, 0, 0, FALSE))

\* navigator.permissions.query rejects
ProbeFailed ==
  /\ probe = "pending"
  /\ Commit([Cur EXCEPT !.probe = "off"], Ev("probe", "failed", 0, 0, FALSE))

\* the user changes the camera permission in the browser and the handler runs
PermissionChange ==
  \E p \in ProviderStates :
    /\ probe = "watching" /\ p # permissionState
    /\ Commit(permissionChanged(Cur, p), Ev("permissionChange", p, 0, 0, FALSE))

\* the capture device, the permission flow, the still image, the manual input,
\* reset and teardown
ScanStep(lim) ==
  \/ ClickCamera(lim)
  \/ ClickStop
  \/ PermissionGranted(lim)
  \/ PermissionRefused
  \/ Acquired(lim)
  \/ AcquireFailed
  \/ Playing(lim)
  \/ PlayFailed
  \/ Tick
  \/ SelectFile(lim)
  \/ ImageLoaded
  \/ ImageFailed
  \/ ManualInput
  \/ Reset
  \/ Teardown
  \/ Probed
  \/ ProbeFailed
  \/ PermissionChange

\* the message form of the result view
HandOffStep(lim) ==
  \/ TypeMessage
  \/ SendSms(lim)
  \/ SmsTimeout

Next == ScanStep(Narrow)

\* scanning under the bounds
Spec == Init /\ [][Next]_vars

\* the ways to a result that hold no capture device
NoCameraStep(lim) ==
  \/ SelectFile(lim)
  \/ ImageLoaded
  \/ ImageFailed
  \/ ManualInput
  \/ Reset
  \/ Teardown

NextHandOff == NoCameraStep(Narrow) \/ HandOffStep(Narrow)

\* the message form of the result view, reached by a still image or by the
\* manual input
SpecHandOff == Init /\ [][NextHandOff]_vars

\* one loading image leaves pendImg: the step of ImageLoaded and of ImageFailed,
\* and of no other action
ImageSettles ==
  \E stale \in BOOLEAN : Has(pendImg, stale) /\ pendImg' = Take(pendImg, stale)

\* scanning, where an image that is loading does load or fail to: the browser
\* fires one of img.onload and img.onerror
SpecLive == Init /\ [][Next]_vars /\ WF_pendImg(ImageSettles)

NextWide == ScanStep(Wide)

\* scanning with room for two overlapping startScanning calls
SpecWide == Init /\ [][NextWide]_vars

(***************************************************************************)
(* Steps and states the properties speak about.                            *)
(***************************************************************************)
\* the step just taken was a poll tick that reported found
TickFound == ev.op = "tick" /\ ev.res = "found"

\* the step just taken was a poll tick that decoded a payload without a number
TickAmbiguous == ev.op = "tick" /\ ev.res = "ambiguous"

\* the step just taken was requestCameraPermission resuming with a stream
PermissionJustGranted == ev.op = "requestPermission" /\ ev.res = "granted"

\* the step just taken was requestCameraPermission resuming with a rejection
PermissionJustRefused == ev.op = "requestPermission" /\ ev.res \in GumErrors

\* no startScanning or requestCameraPermission call is suspended
NoStartInFlight ==
  /\ pendPerm = NoTasks
  /\ pendAcquire = NoTasks
  /\ pendPlay = {}

(***************************************************************************)
(* C1  At most one result.  A poll tick reports found only while no result *)
(* is shown; it reports the number extracted from the payload of that very *)
(* tick; it ends the scanning session in the same step (isScanning false,  *)
(* no timer in scanIntervalRef), so the session reports no second result;  *)
(* and no poll tick changes a number that is shown, nor does a tick that   *)
(* finds no number set one.                                                *)
(***************************************************************************)
C1_AtMostOneResult ==
  [][ /\ TickFound' =>
           /\ ~scanned /\ isScanning
           /\ scanned' /\ ~isScanning' /\ scanIntervalRef' = 0
           /\ timers'[ev'.timer] = 0 \/ ev'.timer # scanIntervalRef
           /\ phoneNumber' = extractPhoneNumberOf(lastScannedContent')
           /\ phoneNumber' # null
      /\ (ev'.op = "tick" /\ scanned) => phoneNumber' = phoneNumber
      /\ TickAmbiguous' => phoneNumber' = phoneNumber /\ scanned' = scanned ]_vars

\* a tick reported the number of "tel:+12025550172", after which nothing polls
C1_Witness ==
  /\ TickFound
  /\ scanned /\ ~isScanning /\ scanIntervalRef = 0
  /\ lastScannedContent = PayloadTel
  /\ phoneNumber = <<"+", "1", "2", "0", "2", "5", "5", "5", "0", "1", "7", "2">>

(***************************************************************************)
(* C2  startScanning() then stopScanning() before the device arrives: once *)
(* the acquisition of the cancelled call has resumed, the device it        *)
(* acquired has been released, once, and while isScanning is false no tick *)
(* decodes.                                                                *)
(***************************************************************************)
C2_CancelledStartReleased ==
  /\ (ev.op = "acquire" /\ ev.res = "ok" /\ ev.stale) =>
        ev.stream \notin openStreams /\ ~doubleStop
  /\ ~isScanning => \A code \in Payloads : TickResult(Cur, "ready", code) = "skip"

(***************************************************************************)
(* C3  Post-cancellation discard: a completion that resumes a call made    *)
(* stale by stopScanning()/reset() changes neither the phone number, the   *)
(* found flag, the last payload, the permission state nor the capture      *)
(* session.  Stated for the mounted component, whose state React shows.    *)
(***************************************************************************)
C3_StaleResultDiscarded ==
  [][ (mounted' /\ ev'.stale) =>
        UNCHANGED <<phoneNumber, scanned, lastScannedContent, permissionState,
                    streamRef, scanIntervalRef, timers, openStreams>> ]_vars

(***************************************************************************)
(* C4  The capture session is inactive (no device handle, no timer) or     *)
(* active (both).  Stated for the states in which no startScanning call is *)
(* suspended between acquiring the device and setting the timer, which the *)
(* claim counts too.                                                       *)
(***************************************************************************)
C4_SessionInactiveOrActive ==
  NoStartInFlight => (streamRef = 0 <=> scanIntervalRef = 0)

(***************************************************************************)
(* C5  After teardown, once every completion that was outstanding has      *)
(* arrived, no capture device is open and no poll timer is live.           *)
(***************************************************************************)
C5_TeardownReleasesAll ==
  (~mounted /\ Outstanding(Cur) = 0) => (openStreams = {} /\ LiveTimers(Cur) = {})

(***************************************************************************)
(* C6  stopScanning() from any reachable state: it leaves no timer in      *)
(* scanIntervalRef and cancels the one that was there, leaves no stream in *)
(* streamRef and stops the one that was there, leaves the video sink empty *)
(* and isScanning false; in Idle it changes nothing; a second call changes *)
(* nothing more, and no stream is stopped twice.                           *)
(***************************************************************************)
IdleState(s) == s.streamRef = 0 /\ s.scanIntervalRef = 0 /\ ~s.isScanning

StopsCleanly(s, r) ==
  /\ r.scanIntervalRef = 0 /\ r.streamRef = 0 /\ r.srcObject = 0 /\ ~r.isScanning
  /\ s.scanIntervalRef # 0 => r.timers[s.scanIntervalRef] = 0
  /\ s.streamRef # 0 => s.streamRef \notin r.openStreams
  /\ r.doubleStop = s.doubleStop
  /\ IdleState(s) => r = s
  /\ stopScanning(r) = r

C6_StopScanningIdempotent == StopsCleanly(Cur, stopScanning(Cur))

\* Stop Camera was pressed on an active session, whose device is now released
C6_Witness ==
  /\ ev.op = "stopCamera" /\ ev.stream # 0
  /\ ev.stream \notin openStreams
  /\ streamRef = 0 /\ scanIntervalRef = 0 /\ LiveTimers(Cur) = {} /\ ~isScanning

(***************************************************************************)
(* C7  When a poll tick has reported found, the timer that fired it is no  *)
(* longer scheduled and the device acquired by the same startScanning call *)
(* is no longer open.                                                      *)
(***************************************************************************)
C7_FoundAfterRelease ==
  TickFound => (timers[ev.timer] = 0 /\ ev.stream \notin openStreams)

(***************************************************************************)
(* C8  A poll tick that finds no code changes nothing, and one that        *)
(* decodes a payload without a phone number reports the payload and goes   *)
(* on: the timers, the device and isScanning stay as they are, isScanning  *)
(* is true, and no phone number is set.                                    *)
(***************************************************************************)
C8_NoNumberKeepsPolling ==
  /\ [](scanVideoFrame(Cur, "ready", null) = Cur)
  /\ [][ TickAmbiguous' =>
           /\ UNCHANGED <<timers, scanIntervalRef, streamRef, openStreams, srcObject>>
           /\ timers[ev'.timer] # 0
           /\ isScanning /\ isScanning'
           /\ UNCHANGED <<phoneNumber, scanned>>
           /\ lastScannedContent' \in Payloads
           /\ extractPhoneNumberOf(lastScannedContent') = null
           /\ error' = "ScanNoPhoneNumber" ]_vars

\* a tick decoded "hello 42" and the session is still polling
C8_Witness ==
  /\ TickAmbiguous
  /\ lastScannedContent = PayloadText /\ error = "ScanNoPhoneNumber"
  /\ phoneNumber = <<>> /\ ~scanned
  /\ isScanning /\ scanIntervalRef # 0 /\ timers[scanIntervalRef] # 0
  /\ streamRef \in openStreams

(***************************************************************************)
(* C9  requestPermission() on success: the device it acquired is released, *)
(* streamRef holds no device, PermissionState is granted, and the call has *)
(* neither opened a device nor set or cleared a timer.                     *)
(***************************************************************************)
C9_PermissionTransient ==
  /\ [](PermissionJustGranted =>
          /\ ev.stream \notin openStreams
          /\ streamRef = 0
          /\ permissionState = "granted"
          /\ ~doubleStop)
  /\ [][ PermissionJustGranted' =>
           UNCHANGED <<openStreams, timers, scanIntervalRef>> ]_vars

\* a permission request has just succeeded and nothing is open
C9_Witness ==
  /\ PermissionJustGranted
  /\ permissionState = "granted"
  /\ streamRef = 0 /\ openStreams = {} /\ LiveTimers(Cur) = {}

(***************************************************************************)
(* C10  As claimed: requestPermission() on refusal leaves PermissionState  *)
(* denied and a reason reported, whatever the reason.                      *)
(***************************************************************************)
C10_RefusalDenies ==
  PermissionJustRefused => (permissionState = "denied" /\ error # "")

\* the message reported for each rejection
RefusalMessage(name) ==
  IF name = "NotAllowedError" THEN "CameraAccessDenied"
  ELSE IF name = "NotFoundError" THEN "NoCameraFound"
  ELSE "CameraAccessFailed"

(***************************************************************************)
(* C10, amended: on refusal requestPermission() reports a reason, distinct *)
(* for access denied, no device found and other failure; PermissionState   *)
(* becomes denied for access denied only, and stays what it was for the    *)
(* other two.  No device is opened.                                        *)
(***************************************************************************)
C10_RefusalReported ==
  [][ PermissionJustRefused' =>
        /\ error' = RefusalMessage(ev'.res)
        /\ permissionState' = IF ev'.res = "NotAllowedError" THEN "denied"
                              ELSE permissionState
        /\ UNCHANGED <<openStreams, streamRef, isScanning>> ]_vars

\* "no camera found" was reported and the permission is not denied
C10_Witness ==
  /\ PermissionJustRefused
  /\ ev.res = "NotFoundError"
  /\ error = "NoCameraFound"
  /\ permissionState # "denied"

(***************************************************************************)
(* C11  Selecting a file whose type is not an image type reports           *)
(* InvalidFileType and starts no decode: no image is loading because of    *)
(* it, isProcessingFile stays false, and the phone number, the found flag  *)
(* and the last payload are untouched.                                     *)
(***************************************************************************)
C11_NonImageRejected ==
  [][ (ev'.op = "uploadImage" /\ ev'.res = "other") =>
        /\ error' = "InvalidFileType"
        /\ ~isProcessingFile'
        /\ UNCHANGED <<pendImg, isProcessingFile, phoneNumber, scanned,
                       lastScannedContent>> ]_vars

\* a file that is no image was just selected, and nothing is being decoded
C11_Witness ==
  /\ ev.op = "uploadImage" /\ ev.res = "other"
  /\ error = "InvalidFileType"
  /\ pendImg = NoTasks /\ ~isProcessingFile /\ phoneNumber = <<>>

(***************************************************************************)
(* Steps of the message form.                                              *)
(***************************************************************************)
\* the step just taken was a submission of the message form
HandOffJustRun == ev.op = "composeAndHandOff"

\* the number and the message composeAndHandOff requires
HandOffAllowed == Len(DigitsOf(phoneNumber)) >= 10 /\ ~Blank(smsMessage)

(***************************************************************************)
(* C12  composeAndHandOff sets the hand-off-attempted flag, and schedules  *)
(* what follows the hand-off, only when the message is not blank and the   *)
(* number has at least 10 digits, and then it does unless opening the link *)
(* throws; otherwise the flag is false, nothing is scheduled and           *)
(* EmptyMessage or the invalid number is reported.                         *)
(***************************************************************************)
C12_HandOffRequires ==
  [][ HandOffJustRun' =>
        /\ UNCHANGED <<phoneNumber, smsMessage>>
        /\ ~isSendingSms'
        /\ smsAttempted' => HandOffAllowed
        /\ (HandOffAllowed /\ ev'.res \in {"mobile", "desktop"}) =>
              smsAttempted' /\ error \in pendTimeout'
        /\ ~HandOffAllowed =>
              /\ ~smsAttempted'
              /\ pendTimeout' = pendTimeout
              /\ error' \in {"SmsEmptyMessage", "SmsInvalidPhoneNumber"} ]_vars

\* a message of one blank was submitted: EmptyMessage, and no hand-off
C12_Witness ==
  /\ HandOffJustRun
  /\ smsMessage = <<" ">> /\ phoneNumber # <<>>
  /\ error = "SmsEmptyMessage" /\ ~smsAttempted /\ pendTimeout = {}

(***************************************************************************)
(* C13  Off a mobile device, with a valid number and a message, the        *)
(* advisory is reported and the hand-off is requested all the same:        *)
(* hand-off-attempted becomes true.                                        *)
(***************************************************************************)
C13_AdvisoryDoesNotBlock ==
  [][ (HandOffJustRun' /\ ev'.res = "desktop" /\ HandOffAllowed) =>
        /\ error' = "SmsDesktopAdvisory"
        /\ smsAttempted'
        /\ error \in pendTimeout' ]_vars

\* the form was submitted off a mobile device: advisory shown, hand-off attempted
C13_Witness ==
  /\ HandOffJustRun /\ ev.res = "desktop"
  /\ smsMessage = <<"h", "i">> /\ Len(DigitsOf(phoneNumber)) >= 10
  /\ error = "SmsDesktopAdvisory" /\ smsAttempted

(***************************************************************************)
(* C14  After reset() the phone number, the found flag, the last payload,  *)
(* the error, the message, the hand-off-attempted flag, isScanning and     *)
(* isProcessingFile are all cleared, and neither a device handle nor a     *)
(* timer is held.                                                          *)
(***************************************************************************)
C14_ResetClearsAll ==
  ev.op = "reset" =>
    /\ phoneNumber = <<>> /\ ~scanned /\ lastScannedContent = <<>> /\ error = ""
    /\ smsMessage = <<>> /\ ~smsAttempted
    /\ ~isScanning /\ ~isProcessingFile
    /\ streamRef = 0 /\ scanIntervalRef = 0

(***************************************************************************)
(* extractPhoneNumber on its own: the texts it is applied to.              *)
(***************************************************************************)
\* the longest run of digits among the texts
MaxDigits == 17

DigitSeq == <<"0", "1", "2", "3", "4", "5", "6", "7", "8", "9">>

\* the n digits d, d+1, ... counted modulo 10: DigitString(1, 11) is "12345678901"
DigitString(d, n) == [i \in 1..n |-> DigitSeq[((d + i - 1) % 10) + 1]]

\* texts of digits only, the empty text among them
DigitStrings == {DigitString(d, n) : d \in 0..9, n \in 0..MaxDigits}

\* the same behind a +
PlusStrings == {<<"+">> \o D : D \in DigitStrings}

\* "tel:+1-202-555-0172"
TextTelDashed ==
  <<"t", "e", "l", ":", "+", "1", "-", "2", "0", "2", "-", "5", "5", "5", "-", "0", "1", "7", "2">>

\* "phone: 555 123 4567"
TextPhoneSpaced ==
  <<"p", "h", "o", "n", "e", ":", " ", "5", "5", "5", " ", "1", "2", "3", " ", "4", "5", "6", "7">>

\* "no digits here"
TextNoDigits ==
  <<"n", "o", " ", "d", "i", "g", "i", "t", "s", " ", "h", "e", "r", "e">>

\* "(555) 123-4567"
TextParens ==
  <<"(", "5", "5", "5", ")", " ", "1", "2", "3", "-", "4", "5", "6", "7">>

\* "+1 (555) 123-4567"
TextCountryParens ==
  <<"+", "1", " ", "(", "5", "5", "5", ")", " ", "1", "2", "3", "-", "4", "5", "6", "7">>

\* "1234-567-890"
TextFourThreeThree ==
  <<"1", "2", "3", "4", "-", "5", "6", "7", "-", "8", "9", "0">>

\* "123-4567-8901"
TextThreeFourFour ==
  <<"1", "2", "3", "-", "4", "5", "6", "7", "-", "8", "9", "0", "1">>

\* "tel:+123"
TextShortTel ==
  <<"t", "e", "l", ":", "+", "1", "2", "3">>

\* "phone: 555 1234"
TextShortPhone ==
  <<"p", "h", "o", "n", "e", ":", " ", "5", "5", "5", " ", "1", "2", "3", "4">>

\* "2024-01-15 5551234567"
TextDateThenNumber ==
  <<"2", "0", "2", "4", "-", "0", "1", "-", "1", "5", " ", "5", "5", "5", "1", "2", "3", "4", "5", "6", "7">>

\* "tel:+12-34-56-78-90-12-34-5"
TextTelPairs ==
  <<"t", "e", "l", ":", "+", "1", "2", "-", "3", "4", "-", "5", "6", "-", "7", "8", "-", "9", "0", "-", "1", "2", "-", "3", "4", "-", "5">>

\* "TEL:555.123.4567"
TextUpperTel ==
  <<"T", "E", "L", ":", "5", "5", "5", ".", "1", "2", "3", ".", "4", "5", "6", "7">>

FormattedTexts ==
  {TextTelDashed, TextPhoneSpaced, TextNoDigits, TextParens, TextCountryParens,
   TextFourThreeThree, TextThreeFourFour, TextShortTel,
   TextShortPhone, TextDateThenNumber, TextTelPairs, TextUpperTel}

Texts == DigitStrings \cup PlusStrings \cup FormattedTexts

\* the text is digits and nothing else
DigitsOnly(text) == \A i \in 1..Len(text) : text[i] \in Digit

\* a PhoneCandidate: 10 to 15 digits behind an optional +
Normalized(c) ==
  /\ c # <<>>
  /\ DigitsOnly(IF HasPlus(c) THEN Tail(c) ELSE c)
  /\ DigitCount(c) >= 10 /\ DigitCount(c) <= 15

\* extractPhoneNumber was applied to s.lastScannedContent and returned r
Extracted(s, r) ==
  Assign([s EXCEPT !.phoneNumber = r],
         Ev("extract", IF r = null THEN "none" ELSE "some", 0, 0, FALSE))

InitExtract ==
  \E text \in Texts :
    /\ phoneNumber = <<>> /\ scanned = FALSE /\ error = "" /\ isScanning = FALSE
    /\ permissionState = "unknown" /\ isProcessingFile = FALSE
    /\ lastScannedContent = text /\ smsMessage = <<>> /\ isSendingSms = FALSE
    /\ smsAttempted = FALSE /\ scanIntervalRef = 0 /\ streamRef = 0
    /\ videoRef = FALSE /\ srcObject = 0 /\ mounted = TRUE /\ openStreams = {}
    /\ timers = [t \in TimerIds |-> 0] /\ probe = "off"
    /\ pendPerm = NoTasks /\ pendAcquire = NoTasks /\ pendImg = NoTasks
    /\ pendPlay = {} /\ pendTimeout = {} /\ doubleStop = FALSE
    /\ ev = Ev("init", "", 0, 0, FALSE)

\* extractPhoneNumber(text), the result kept in phoneNumber
Extract ==
  /\ ev.op = "init"
  /\ Extracted(Cur, extractPhoneNumber(lastScannedContent))

NextExtract == Extract

\* extractPhoneNumber applied once to each of the texts
SpecExtract == InitExtract /\ [][NextExtract]_vars

\* extractPhoneNumber has just returned
ExtractDone == ev.op = "extract"

(***************************************************************************)
(* C15  For a text D of 10 to 15 digits and nothing else, extract returns  *)
(* D itself when D has 10 digits and + followed by all of D otherwise.     *)
(***************************************************************************)
C15_DigitStringKept ==
  (/\ ExtractDone
   /\ DigitsOnly(lastScannedContent)
   /\ Len(lastScannedContent) >= 10 /\ Len(lastScannedContent) <= 15) =>
     phoneNumber = IF Len(lastScannedContent) = 10 THEN lastScannedContent
                   ELSE <<"+">> \o lastScannedContent

(***************************************************************************)
(* C16  For a text of digits and nothing else, shorter than 10 or longer   *)
(* than 15, extract returns none.                                          *)
(***************************************************************************)
C16_OutOfRangeRejected ==
  (/\ ExtractDone
   /\ DigitsOnly(lastScannedContent)
   /\ Len(lastScannedContent) < 10 \/ Len(lastScannedContent) > 15) =>
     ev.res = "none" /\ phoneNumber = null

(***************************************************************************)
(* C17  extract returns an already normalized candidate (10 to 15 digits   *)
(* behind an optional +) as it is, and so applying extract to what extract *)
(* returned returns the same again.                                        *)
(***************************************************************************)
C17_ExtractIdempotent ==
  ExtractDone =>
    /\ Normalized(lastScannedContent) => phoneNumber = lastScannedContent
    /\ phoneNumber # null => extractPhoneNumberOf(phoneNumber) = phoneNumber

(***************************************************************************)
(* C18  extract("tel:+1-202-555-0172") is "+12025550172" and               *)
(* extract("phone: 555 123 4567") is "5551234567": the prefix and the      *)
(* separators are gone, the leading + is kept.                             *)
(***************************************************************************)
C18_PrefixAndSeparatorsStripped ==
  ExtractDone =>
    /\ lastScannedContent = TextTelDashed =>
         phoneNumber = <<"+", "1", "2", "0", "2", "5", "5", "5", "0", "1", "7", "2">>
    /\ lastScannedContent = TextPhoneSpaced =>
         phoneNumber = <<"5", "5", "5", "1", "2", "3", "4", "5", "6", "7">>

\* extract has returned "+12025550172" for "tel:+1-202-555-0172"
C18_Witness ==
  /\ ExtractDone
  /\ lastScannedContent = TextTelDashed
  /\ phoneNumber = <<"+", "1", "2", "0", "2", "5", "5", "5", "0", "1", "7", "2">>

(***************************************************************************)
(* C19  For a text with fewer than 10 digits in all, extract returns none. *)
(***************************************************************************)
C19_FewDigitsNone ==
  (ExtractDone /\ Len(DigitsOf(lastScannedContent)) < 10) =>
    ev.res = "none" /\ phoneNumber = null

\* extract has returned none for "tel:+123", which the tel: pattern matches
C19_Witness ==
  /\ ExtractDone
  /\ lastScannedContent = TextShortTel
  /\ ev.res = "none" /\ phoneNumber = null

(***************************************************************************)
(* The shape of a PhoneCandidate.                                          *)
(***************************************************************************)
\* 10 to 15 digits behind an optional +, and exactly 10 where there is no +
PhoneCandidateOk(c) == Normalized(c) /\ (~HasPlus(c) => Len(c) = 10)

\* what extractPhoneNumber returns for the payloads, the inputs and the texts
ExtractResults ==
  {extractPhoneNumberOf(text) : text \in Payloads \cup ManualInputs \cup Texts}

(***************************************************************************)
(* C20  In every reachable state the phone number is empty or one of the   *)
(* results of extract, and every result of extract that is a number has 10 *)
(* to 15 digits behind an optional +, exactly 10 where it has no +.        *)
(***************************************************************************)
C20_PhoneCandidateInvariant ==
  /\ phoneNumber = <<>> \/ (phoneNumber \in ExtractResults /\ PhoneCandidateOk(phoneNumber))
  /\ \A r \in ExtractResults : r = null \/ PhoneCandidateOk(r)

\* the manual input "5551234567" was accepted and is the number shown
C20_Witness ==
  /\ ev.op = "enterManualNumber" /\ ev.res = "found"
  /\ scanned /\ phoneNumber = PayloadLocal

(***************************************************************************)
(* C21  Once PermissionState is denied, only the provider's probe or       *)
(* change notification changes it: no command and no completion of an      *)
(* earlier request changes it or opens a capture device.                   *)
(***************************************************************************)
C21_DeniedUntilProviderChange ==
  [][ (permissionState = "denied" /\ ev'.op \notin {"probe", "permissionChange"}) =>
        /\ permissionState' = "denied"
        /\ openStreams' \subseteq openStreams
        /\ streamRef' \in {0, streamRef} ]_vars

(***************************************************************************)
(* Calls of startScanning.                                                 *)
(***************************************************************************)
\* how many startScanning calls await their device
AcquiresInFlight == pendAcquire.fresh + pendAcquire.stale

(***************************************************************************)
(* C22  startScanning is called, and so a device is requested for polling, *)
(* only with PermissionState granted: by the camera button where it finds  *)
(* granted, or by a permission request that has just succeeded.  A refused *)
(* request calls nothing: no device is opened, no timer is set and         *)
(* isScanning is not set.                                                  *)
(***************************************************************************)
C22_StartRequiresGranted ==
  [][ /\ AcquiresInFlight' > AcquiresInFlight =>
           /\ permissionState' = "granted"
           /\ \/ ev'.op = "startCamera" /\ permissionState = "granted"
              \/ PermissionJustGranted'
      /\ (ev'.op = "startCamera" /\ permissionState # "granted") =>
           /\ AcquiresInFlight' = AcquiresInFlight
           /\ UNCHANGED <<openStreams, timers, isScanning>>
      /\ PermissionJustRefused' =>
           UNCHANGED <<pendAcquire, pendPlay, openStreams, streamRef, timers,
                       scanIntervalRef, isScanning>> ]_vars

\* access was denied to the request the camera button made: nothing was started
C22_Witness ==
  /\ PermissionJustRefused /\ ev.res = "NotAllowedError"
  /\ AcquiresInFlight = 0 /\ pendPlay = {}
  /\ openStreams = {} /\ LiveTimers(Cur) = {} /\ ~isScanning

(***************************************************************************)
(* Ends of operations.                                                     *)
(***************************************************************************)
\* the step just taken was the catch of startScanning
StartJustFailed == ev.op \in {"acquire", "play"} /\ ev.res = "failed"

\* no startScanning call is in flight and none has left a device or a timer
NoSessionAround ==
  /\ AcquiresInFlight = 0 /\ pendPlay = {}
  /\ streamRef = 0 /\ scanIntervalRef = 0

\* the message form is rendered
FormShown == mounted /\ scanned /\ phoneNumber # <<>>

C24_OneSessionAtATime ==
  /\ Cardinality(openStreams) <= 1
  /\ Cardinality(LiveTimers(Cur)) <= 1
  /\ openStreams \subseteq {streamRef}
  /\ LiveTimers(Cur) \subseteq {scanIntervalRef}

(***************************************************************************)
(* C25  After a startScanning() that failed, at the acquisition or at      *)
(* playing the video, no device handle is held and none is open, no poll   *)
(* timer is scheduled, isScanning is false and an error is reported.       *)
(***************************************************************************)
C25_FailedStartInactive ==
  (StartJustFailed /\ ~ev.stale) =>
    /\ streamRef = 0 /\ openStreams = {}
    /\ scanIntervalRef = 0 /\ LiveTimers(Cur) = {}
    /\ ~isScanning /\ error = "StartCameraFailed"

(***************************************************************************)
(* C26  Whenever a number has been found, from a poll tick, an image or    *)
(* the manual input, the capture session is inactive: no device handle, no *)
(* poll timer, isScanning false.                                           *)
(***************************************************************************)
C26_FoundMeansInactive ==
  (scanned /\ NoStartInFlight) =>
    /\ streamRef = 0 /\ openStreams = {}
    /\ scanIntervalRef = 0 /\ LiveTimers(Cur) = {}
    /\ ~isScanning

=============================================================================
